---- MODULE Spec2Model ----
(***************************************************************************)
(* Model of the schema-diffing pipeline of scripts/compare_schemas.py:     *)
(* walk_json flattens one parsed JSON document into (path, type) pairs,    *)
(* analyze_files builds one FileSchema per file, merge_schemas folds them  *)
(* into the merged schema and summarize_schema derives the summary record. *)
(*                                                                         *)
(* Python values are records [cls, b, n, s, els, items]; a dict is the     *)
(* sequence of its <<key, value>> pairs in insertion order (Python dicts   *)
(* keep insertion order and the code iterates them); a set is a TLA+ set.  *)
(***************************************************************************)
EXTENDS Integers, Sequences, FiniteSets, TLC

\* ------------------------------------------------------------------------
\* Bounds of the model
\* ------------------------------------------------------------------------
MaxFiles == 3
WideFiles == 2
MaxArrayLen == 6
WideKeys == 21
MaxMetaFiles == 3

\* ------------------------------------------------------------------------
\* Program constants
\* ------------------------------------------------------------------------
SampleCap == 5
ExampleCap == 20

\* ------------------------------------------------------------------------
\* Python values
\* ------------------------------------------------------------------------
PyVal(cls, b, n, s, els, items) ==
  [cls |-> cls, b |-> b, n |-> n, s |-> s, els |-> els, items |-> items]

PyNone == PyVal("NoneType", FALSE, 0, "", <<>>, <<>>)
PyBool(b) == PyVal("bool", b, 0, "", <<>>, <<>>)
PyInt(n) == PyVal("int", FALSE, n, "", <<>>, <<>>)
\* a float is kept in tenths: PyFloat(15) is 1.5
PyFloat(n) == PyVal("float", FALSE, n, "", <<>>, <<>>)
PyStr(s) == PyVal("str", FALSE, 0, s, <<>>, <<>>)
PyList(els) == PyVal("list", FALSE, 0, "", els, <<>>)
PyDict(items) == PyVal("dict", FALSE, 0, "", <<>>, items)

\* the classes a value of class cls is an instance of: bool subclasses int
Bases(cls) == IF cls = "bool" THEN {"bool", "int"} ELSE {cls}

isinstance(v, classes) == Bases(v.cls) \cap classes # {}

\* ------------------------------------------------------------------------
\* dict and list helpers
\* ------------------------------------------------------------------------
Min(a, b) == IF a <= b THEN a ELSE b

\* seq[:n]
Take(seq, n) == SubSeq(seq, 1, Min(n, Len(seq)))

DictKeys(d) == {d[j][1] : j \in DOMAIN d}

DictGet(d, k) == d[CHOOSE j \in DOMAIN d : d[j][1] = k][2]

\* d[k] = v: an existing key keeps its position, a new key goes last
DictSet(d, k, v) ==
  IF k \in DictKeys(d)
  THEN [j \in DOMAIN d |-> IF d[j][1] = k THEN <<k, v>> ELSE d[j]]
  ELSE Append(d, <<k, v>>)

\* ------------------------------------------------------------------------
\* _json_type
\* ------------------------------------------------------------------------
\* faulty variant: the number test comes first, so True and False pass it
json_type_number_first(v) ==
  IF v.cls = "NoneType" THEN "null"
  ELSE IF isinstance(v, {"int", "float"}) THEN "number"
  ELSE IF isinstance(v, {"bool"}) THEN "boolean"
  ELSE IF isinstance(v, {"str"}) THEN "string"
  ELSE IF isinstance(v, {"list"}) THEN "array"
  ELSE IF isinstance(v, {"dict"}) THEN "object"
  ELSE v.cls

_json_type(v) ==
  IF v.cls = "NoneType" THEN "null"
  ELSE IF isinstance(v, {"bool"}) THEN "boolean"
  ELSE IF isinstance(v, {"int", "float"}) /\ ~isinstance(v, {"bool"}) THEN "number"
  ELSE IF isinstance(v, {"str"}) THEN "string"
  ELSE IF isinstance(v, {"list"}) THEN "array"
  ELSE IF isinstance(v, {"dict"}) THEN "object"
  ELSE v.cls

\* ------------------------------------------------------------------------
\* walk_json
\* ------------------------------------------------------------------------
\* base or "$"
BaseOrRoot(base) == IF base # "" THEN base ELSE "$"

\* faulty variant: the "$" the pipeline passes is treated like the empty base
ChildPathBare(base, k) ==
  IF base # "" /\ base # "$" THEN base \o "." \o k ELSE k

\* f"{base}.{k}" if base else k
ChildPath(base, k) == IF base # "" THEN base \o "." \o k ELSE k

\* faulty variant: the elements are recorded under an indexed path
ChildBaseIndexed(base) == IF base # "" THEN base \o "[0]" ELSE "[0]"

\* f"{base}[]" if base else "[]"
ChildBase(base) == IF base # "" THEN base \o "[]" ELSE "[]"

\* faulty variant: one element more than the cap is sampled
SampledOneMore(els) == Take(els, SampleCap + 1)

\* obj[:5]
Sampled(els) == Take(els, SampleCap)

RECURSIVE Flatten(_)
\* the concatenation of a list of lists (what repeated pairs.extend builds)
Flatten(ss) ==
  IF Len(ss) = 0 THEN <<>>
  ELSE IF Len(ss) = 1 THEN ss[1]
  ELSE LET h == Len(ss) \div 2
       IN  Flatten(SubSeq(ss, 1, h)) \o Flatten(SubSeq(ss, h + 1, Len(ss)))

RECURSIVE walk_json(_, _)

\* for k, v in obj.items(): pairs.extend(walk_json(v, child_path))
WalkItems(items, base) ==
  Flatten([j \in DOMAIN items |->
             walk_json(items[j][2], ChildPath(base, items[j][1]))])

\* for i, el in enumerate(obj[:5]): pairs.extend(walk_json(el, child_base))
WalkElements(els, child_base) ==
  Flatten([j \in DOMAIN els |-> walk_json(els[j], child_base)])

\* faulty variant: an empty array records a placeholder for its elements
ListChildrenPlaceholder(els, child_base) ==
  IF els # <<>> THEN WalkElements(Sampled(els), child_base)
  ELSE << <<child_base, "null">> >>

\* the elif branch: a non-empty array walks its sampled elements, an empty
\* one records nothing below itself
ListChildren(els, child_base) ==
  IF els # <<>> THEN WalkElements(Sampled(els), child_base) ELSE <<>>

\* faulty variant: the entry of a node follows the entries of its children
walk_json_children_first(obj, base) ==
  LET own == << <<BaseOrRoot(base), _json_type(obj)>> >>
  IN  IF isinstance(obj, {"dict"}) THEN WalkItems(obj.items, base) \o own
      ELSE IF isinstance(obj, {"list"})
           THEN ListChildren(obj.els, ChildBase(base)) \o own
      ELSE own

walk_json(obj, base) ==
  LET own == << <<BaseOrRoot(base), _json_type(obj)>> >>
  IN  IF isinstance(obj, {"dict"}) THEN own \o WalkItems(obj.items, base)
      ELSE IF isinstance(obj, {"list"})
           THEN own \o ListChildren(obj.els, ChildBase(base))
      ELSE own

\* ------------------------------------------------------------------------
\* File paths (pathlib.Path) and string order
\* ------------------------------------------------------------------------
\* the largest file number any corpus of the model uses
MaxFileIndex == IF MaxFiles >= WideFiles THEN MaxFiles ELSE WideFiles

\* the k-th candidate file of the folder, as a Path (its parts)
FilePath(k) == [parts |-> <<"full", "f" \o ToString(k) \o ".json">>]

\* str(p): the parts joined by "/"
PathStr(p) == p.parts[1] \o "/" \o p.parts[2]

\* Path(f): the string split at "/" into parts
PathOfStr(f) ==
  CHOOSE p \in {FilePath(k) : k \in 1..MaxFileIndex} : PathStr(p) = f

\* the type tags in the order Python compares strings
TypeTagOrder ==
  <<"array", "boolean", "invalid_json", "null", "number", "object", "string">>

TypeTags == {TypeTagOrder[j] : j \in DOMAIN TypeTagOrder}

\* position of a string among the strings the pipeline sorts: the tags by
\* TypeTagOrder, the file names "full/f<k>.json" by their digit k
StrRank(s) ==
  IF s \in TypeTags
  THEN CHOOSE j \in DOMAIN TypeTagOrder : TypeTagOrder[j] = s
  ELSE CHOOSE k \in 1..MaxFileIndex : PathStr(FilePath(k)) = s

\* a < b on str
StrLess(a, b) == StrRank(a) < StrRank(b)

RECURSIVE sorted_descending(_)
\* faulty variant: the largest string first
sorted_descending(S) ==
  IF S = {} THEN <<>>
  ELSE LET m == CHOOSE x \in S : \A y \in S \ {x} : StrLess(y, x)
       IN  <<m>> \o sorted_descending(S \ {m})

RECURSIVE sorted(_)
\* sorted(S) for a set of strings
sorted(S) ==
  IF S = {} THEN <<>>
  ELSE LET m == CHOOSE x \in S : \A y \in S \ {x} : StrLess(x, y)
       IN  <<m>> \o sorted(S \ {m})

SeqToSet(seq) == {seq[j] : j \in DOMAIN seq}

\* ------------------------------------------------------------------------
\* analyze_files
\* ------------------------------------------------------------------------
FileSchema(path, path_types) == [path |-> path, path_types |-> path_types]

\* d = defaultdict(set); for path, typ in pairs: d[path].add(typ); dict(d):
\* the paths in the order of their first pair, each with the set of all the
\* types its pairs carry
CollectPairs(pairs) ==
  LET firsts == SelectSeq([j \in DOMAIN pairs |-> j],
                          LAMBDA j : \A i \in 1..(j - 1) : pairs[i][1] # pairs[j][1])
  IN  [n \in DOMAIN firsts |->
         <<pairs[firsts[n]][1],
           {pairs[i][2] : i \in {i \in DOMAIN pairs : pairs[i][1] = pairs[firsts[n]][1]}}>>]

\* faulty variant: a file that fails to parse is recorded with no schema
AnalyzeOneNoRecord(p, c) ==
  IF ~c.ok
  THEN FileSchema(p, <<>>)
  ELSE FileSchema(p, CollectPairs(walk_json(c.obj, "$")))

\* faulty variant: the record of an unparseable file is keyed by the empty
\* base instead of "$"
AnalyzeOneUnrooted(p, c) ==
  IF ~c.ok
  THEN FileSchema(p, << <<"", {"invalid_json"}>> >>)
  ELSE FileSchema(p, CollectPairs(walk_json(c.obj, "$")))

\* what one iteration of the loop appends to out; c is the outcome of
\* read_text + json.loads: c.ok is FALSE when either raised
AnalyzeOne(p, c) ==
  IF ~c.ok
  THEN FileSchema(p, << <<"$", {"invalid_json"}>> >>)
  ELSE FileSchema(p, CollectPairs(walk_json(c.obj, "$")))

\* ------------------------------------------------------------------------
\* merge_schemas
\* ------------------------------------------------------------------------
\* faulty variant: the types of the latest file replace the ones collected
UpdateRecOverwrite(rec, types, file) ==
  [types |-> types, files |-> rec.files \cup {file}]

\* faulty variant: only the file that creates a record is noted in it
UpdateRecFirstFile(rec, types, file) ==
  [types |-> rec.types \cup types,
   files |-> IF rec.files = {} THEN {file} ELSE rec.files]

\* faulty variant: the file is not added to the record
UpdateRecNoFile(rec, types, file) ==
  [types |-> rec.types \cup types, files |-> rec.files]

\* rec["types"].update(types); rec["files"].add(str(s.path))
UpdateRec(rec, types, file) ==
  [types |-> rec.types \cup types, files |-> rec.files \cup {file}]

\* for path, types in s.path_types.items(): setdefault, then update the
\* record. The keys of path_types are distinct, so each record is updated at
\* most once: a path already in result keeps its position, the new paths
\* follow in the order of path_types.
MergeItems(result, items, file) ==
  LET fresh == SelectSeq(items, LAMBDA e : e[1] \notin DictKeys(result))
  IN  [j \in DOMAIN result |->
         IF result[j][1] \in DictKeys(items)
         THEN <<result[j][1],
                UpdateRec(result[j][2], DictGet(items, result[j][1]), file)>>
         ELSE result[j]]
      \o [j \in DOMAIN fresh |->
            <<fresh[j][1],
              UpdateRec([types |-> {}, files |-> {}], fresh[j][2], file)>>]

\* one iteration of "for s in schemas"
MergeOne(result, s) == MergeItems(result, s.path_types, PathStr(s.path))

RECURSIVE MergeAll(_, _)
MergeAll(result, schemas) ==
  IF schemas = <<>> THEN result
  ELSE MergeAll(MergeOne(result, Head(schemas)), Tail(schemas))

\* all_files = {s.path for s in schemas}
AllFiles(schemas) == {schemas[j].path : j \in DOMAIN schemas}

\* faulty variant: the Path objects are compared with the strings of
\* rec["files"], so the difference removes nothing
MissingInUnconverted(all_files, files) ==
  sorted({PathStr(p) : p \in all_files})

\* all_files - {Path(f) for f in rec["files"]}, sorted as strings
MissingIn(all_files, files) ==
  sorted({PathStr(p) : p \in all_files \ {PathOfStr(f) : f \in SeqToSet(files)}})

\* the finalize loop over result.items()
FinalizeRec(rec, all_files) ==
  LET types == sorted(rec.types)
      files == sorted(rec.files)
  IN  [types |-> types, files |-> files,
       missing_in_files |-> MissingIn(all_files, files)]

Finalize(result, all_files) ==
  [j \in DOMAIN result |-> <<result[j][1], FinalizeRec(result[j][2], all_files)>>]

merge_schemas(schemas) == Finalize(MergeAll(<<>>, schemas), AllFiles(schemas))

\* ------------------------------------------------------------------------
\* summarize_schema
\* ------------------------------------------------------------------------
\* the keys of a sequence of dict items
PathsOf(items) == [j \in DOMAIN items |-> items[j][1]]

HasTypeConflict(r) == Len(r.types) > 1
HasMissing(r) == r.missing_in_files # <<>>
IsUnique(r) == Len(r.files) = 1

\* faulty variant: one example more than the cap
ExamplesOneMore(lst) == Take(lst, ExampleCap + 1)

\* lst[:20]
Examples(lst) == Take(lst, ExampleCap)

summarize_schema(merged) ==
  LET paths_with_type_conflict == 
        PathsOf(SelectSeq(merged, LAMBDA e : HasTypeConflict(e[2])))
      paths_missing == 
        PathsOf(SelectSeq(merged, LAMBDA e : HasMissing(e[2])))
      unique_paths == 
        PathsOf(SelectSeq(merged, LAMBDA e : IsUnique(e[2])))
  IN  [total_paths |-> Len(merged),
       paths_with_type_conflict_count |-> Len(paths_with_type_conflict),
       paths_with_type_conflict |-> Examples(paths_with_type_conflict),
       paths_missing_count |-> Len(paths_missing),
       paths_missing_examples |-> Examples(paths_missing),
       unique_paths_count |-> Len(unique_paths),
       unique_paths_examples |-> Examples(unique_paths)]

\* ------------------------------------------------------------------------
\* Documents and corpora the model draws its inputs from
\* ------------------------------------------------------------------------
\* outcome of read_text + json.loads for one file
Parsed(obj) == [ok |-> TRUE, obj |-> obj]
Unparseable == [ok |-> FALSE, obj |-> PyNone]

Scalars == {PyNone, PyBool(TRUE), PyBool(FALSE), PyInt(1), PyFloat(15), PyStr("x")}

\* {"a": true, "b": 1, "c": 1.5, "d": null, "e": "x", "f": [], "g": {}}
TypesDoc ==
  PyDict(<< <<"a", PyBool(TRUE)>>, <<"b", PyInt(1)>>, <<"c", PyFloat(15)>>,
            <<"d", PyNone>>, <<"e", PyStr("x")>>, <<"f", PyList(<<>>)>>,
            <<"g", PyDict(<<>>)>> >>)

\* arrays of numbers of length 0..MaxArrayLen in which any of the elements
\* from the fourth on may be a string instead
ArrayBodies ==
  UNION {{[j \in 1..n |-> IF j \in T THEN PyStr("x") ELSE PyInt(1)] :
            T \in SUBSET (4..n)} : n \in 0..MaxArrayLen}

\* {"name": "a", "tags": ["x", "y"]}
NameTagsDoc ==
  PyDict(<< <<"name", PyStr("a")>>,
            <<"tags", PyList(<<PyStr("x"), PyStr("y")>>)>> >>)
\* {"name": 1}
NameNumberDoc == PyDict(<< <<"name", PyInt(1)>> >>)
\* {"x": {"y": "s"}} and {"x": {"y": 1}}
XYStringDoc == PyDict(<< <<"x", PyDict(<< <<"y", PyStr("s")>> >>)>> >>)
XYNumberDoc == PyDict(<< <<"x", PyDict(<< <<"y", PyInt(1)>> >>)>> >>)
\* {"items": [{"name": 1}, {"name": "a", "id": 1}, []]}
ObjectItemsDoc ==
  PyDict(<< <<"items",
              PyList(<< NameNumberDoc,
                        PyDict(<< <<"name", PyStr("a")>>, <<"id", PyInt(1)>> >>),
                        PyList(<<>>) >>)>> >>)

\* {"k1": v, ..., "k<WideKeys>": v}
WideDoc(v) == PyDict([j \in 1..WideKeys |-> <<"k" \o ToString(j), v>>])

\* {"a.b": 1, "c[]": 2}: keys that hold the separators of the paths
SeparatorKeysDoc == PyDict(<< <<"a.b", PyInt(1)>>, <<"c[]", PyInt(2)>> >>)

WalkDocs ==
  Scalars
  \cup {TypesDoc, NameTagsDoc, XYStringDoc, ObjectItemsDoc, PyDict(<<>>)}
  \cup {SeparatorKeysDoc}
  \cup {PyList(b) : b \in ArrayBodies}
  \cup {PyDict(<< <<"items", PyList(b)>> >>) : b \in ArrayBodies}
  \cup {PyDict(<< <<"rows", PyList(<<PyList(b), PyList(b)>>)>> >>) : b \in ArrayBodies}

CorpusContents ==
  {Parsed(NameTagsDoc), Parsed(NameNumberDoc), Parsed(XYStringDoc),
   Parsed(XYNumberDoc), Parsed(PyInt(1)), Unparseable}

WideContents ==
  {Parsed(WideDoc(PyInt(1))), Parsed(WideDoc(PyStr("x"))),
   Parsed(NameNumberDoc), Unparseable}

RECURSIVE Ascending(_)
\* the files numbered by S in the order find_json_files returns them
Ascending(S) ==
  IF S = {} THEN <<>>
  ELSE LET k == CHOOSE x \in S : \A y \in S : x <= y
       IN  <<FilePath(k)>> \o Ascending(S \ {k})

\* the files of the folder that the ignore patterns match
IgnoredFiles == {[parts |-> <<"full", "modeler.json">>]}

\* the default ignore_patterns of main
IgnorePatterns ==
  {"*_full_response.json", "*full_response*.json", "*metadata*.json",
   "modeler.json", "parser.json", "*parser*.json", "*modeler_metadata*.json"}

\* fnmatch.fnmatch(name, pat) on the file names of the model: the numbered
\* files f<k>.json match no pattern, modeler.json matches its own name
fnmatch(name, pat) == name = "modeler.json" /\ pat = "modeler.json"

\* find_json_files without an index: the *.json files of the folder, sorted,
\* minus those whose name matches an ignore pattern
find_json_files(found, ignore_patterns) ==
  LET kept == {p \in found : ~\E pat \in ignore_patterns : fnmatch(p.parts[2], pat)}
  IN  Ascending({k \in 1..MaxFileIndex : FilePath(k) \in kept})

\* ------------------------------------------------------------------------
\* analyze_metadata: extract_token_usage and extract_model_info
\* ------------------------------------------------------------------------
\* Optional[int]: None, or an int
None == [some |-> FALSE, v |-> 0]
Some(v) == [some |-> TRUE, v |-> v]

\* k in d, d.get(k), isinstance(v, dict), bool(v)
Has(d, k) == k \in DictKeys(d.items)
Get(d, k) == IF Has(d, k) THEN DictGet(d.items, k) ELSE PyNone
IsDict(v) == isinstance(v, {"dict"})
Truthy(v) ==
  CASE v.cls = "NoneType" -> FALSE
    [] v.cls = "bool"     -> v.b
    [] v.cls = "int"      -> v.n # 0
    [] v.cls = "float"    -> v.n # 0
    [] v.cls = "str"      -> v.s # ""
    [] v.cls = "list"     -> v.els # <<>>
    [] v.cls = "dict"     -> v.items # <<>>

\* a or b
Or(a, b) == IF Truthy(a) THEN a ELSE b

\* int(s) of the strings of the model: "7" is a number, the others raise
ParseInt(s) == IF s = "7" THEN Some(7) ELSE None

\* int(v), and int(str(v)) when that raises; None when both raise
IntOf(v) ==
  CASE v.cls = "int"   -> Some(v.n)
    [] v.cls = "bool"  -> Some(IF v.b THEN 1 ELSE 0)
    [] v.cls = "float" -> Some(v.n \div 10)
    [] v.cls = "str"   -> ParseInt(v.s)
    [] OTHER           -> None

\* keys = {"prompt_tokens": None, "completion_tokens": None, "total_tokens": None}
NoTokens == [prompt_tokens |-> None, completion_tokens |-> None, total_tokens |-> None]

\* the two mappings try_assign is called with, as dst_key -> src_key
CamelMapping ==
  [prompt_tokens |-> "promptTokens", completion_tokens |-> "completionTokens",
   total_tokens |-> "totalTokens"]
SnakeMapping ==
  [prompt_tokens |-> "prompt_tokens", completion_tokens |-> "completion_tokens",
   total_tokens |-> "total_tokens"]

\* try_assign: every dst_key whose src_key is in dct with a value that is
\* not None and converts to int is assigned, whatever keys[dst_key] held
try_assign(keys, dct, mapping) ==
  [dst \in DOMAIN mapping |->
     IF /\ Has(dct, mapping[dst])
        /\ Get(dct, mapping[dst]) # PyNone
        /\ IntOf(Get(dct, mapping[dst])).some
     THEN IntOf(Get(dct, mapping[dst]))
     ELSE keys[dst]]

\* if isinstance(obj.get(keyname), dict): try_assign(obj[keyname], camelCase)
TopLevelUsage(keys, obj, keyname) ==
  IF IsDict(Get(obj, keyname))
  THEN try_assign(keys, Get(obj, keyname), CamelMapping)
  ELSE keys

\* the modeler_metadata.response_metadata block
ResponseMetadataUsage(keys, obj) ==
  LET mm == Get(obj, "modeler_metadata")
      rm == Get(mm, "response_metadata")
      tu == Get(rm, "token_usage")
  IN  IF Has(obj, "modeler_metadata") /\ IsDict(mm) /\ IsDict(rm)
      THEN try_assign(IF IsDict(tu) THEN try_assign(keys, tu, SnakeMapping) ELSE keys,
                      rm, CamelMapping)
      ELSE keys

\* one iteration of the loop under "fallback generic checks"
GenericUsage(keys, obj, keyname) ==
  IF Has(obj, keyname) /\ IsDict(Get(obj, keyname))
  THEN try_assign(try_assign(keys, Get(obj, keyname), SnakeMapping),
                  Get(obj, keyname), CamelMapping)
  ELSE keys

extract_token_usage(obj) ==
  LET k1 == TopLevelUsage(NoTokens, obj, "tokenUsage")
      k2 == TopLevelUsage(k1, obj, "tokenUsageEstimate")
      k3 == ResponseMetadataUsage(k2, obj)
      k4 == GenericUsage(k3, obj, "tokenUsage")
      k5 == GenericUsage(k4, obj, "tokenUsageEstimate")
  IN  GenericUsage(k5, obj, "token_usage")

extract_model_info(obj) ==
  LET mm == Get(obj, "modeler_metadata")
      resp == Get(obj, "response")
      rmeta == Get(obj, "response_metadata")
      m1 == IF IsDict(mm) THEN Or(Get(mm, "model"), PyNone) ELSE PyNone
      t1 == IF IsDict(mm) THEN Or(Get(mm, "temperature"), PyNone) ELSE PyNone
      m2 == IF m1 = PyNone /\ isinstance(Get(obj, "model"), {"str"})
            THEN Get(obj, "model") ELSE m1
      m3 == IF m2 = PyNone /\ IsDict(resp) /\ IsDict(Get(resp, "generationInfo"))
            THEN Get(Get(resp, "generationInfo"), "model_name") ELSE m2
      m4 == IF m3 = PyNone /\ IsDict(rmeta)
            THEN Or(Get(rmeta, "model_name"), m3) ELSE m3
  IN  [model |-> m4, temperature |-> t1]

\* the metadata shapes of the model, per top-level key
TokenUsageShapes ==
  {PyDict(<< <<"promptTokens", PyInt(10)>> >>),
   PyDict(<< <<"prompt_tokens", PyInt(11)>> >>),
   PyDict(<< <<"promptTokens", PyInt(10)>>, <<"prompt_tokens", PyInt(11)>>,
             <<"completionTokens", PyInt(12)>> >>),
   PyDict(<< <<"promptTokens", PyStr("x")>>, <<"completionTokens", PyNone>>,
             <<"totalTokens", PyStr("7")>> >>),
   PyStr("n/a")}
TokenUsageEstimateShapes ==
  {PyDict(<< <<"promptTokens", PyInt(20)>>, <<"totalTokens", PyInt(22)>> >>),
   PyDict(<< <<"prompt_tokens", PyFloat(215)>> >>)}
ModelerMetadataShapes ==
  {PyDict(<< <<"model", PyStr("m1")>> >>),
   PyDict(<< <<"model", PyStr("")>>,
             <<"response_metadata",
               PyDict(<< <<"token_usage",
                           PyDict(<< <<"prompt_tokens", PyInt(30)>>,
                                     <<"total_tokens", PyInt(32)>> >>)>>,
                         <<"promptTokens", PyInt(31)>> >>)>> >>),
   PyDict(<< <<"model", PyStr("m1")>>, <<"temperature", PyFloat(2)>>,
             <<"response_metadata",
               PyDict(<< <<"totalTokens", PyBool(TRUE)>> >>)>> >>)}
SnakeUsageShapes == {PyDict(<< <<"prompt_tokens", PyInt(40)>> >>)}
ModelShapes == {PyStr("m2"), PyInt(5)}
ResponseShapes ==
  {PyDict(<< <<"generationInfo", PyDict(<< <<"model_name", PyStr("m3")>> >>)>> >>),
   PyDict(<< <<"generationInfo", PyDict(<<>>)>> >>)}
ResponseMetadataShapes == {PyDict(<< <<"model_name", PyStr("m4")>> >>)}

\* the key k absent, or present with one of the values V
Optionally(k, V) == {<<>>} \cup {<< <<k, v>> >> : v \in V}

\* the metadata objects: every combination of the shapes
MetaObjects ==
  {PyDict(a \o b \o c \o d \o e \o f \o g) :
     a \in Optionally("tokenUsage", TokenUsageShapes),
     b \in Optionally("tokenUsageEstimate", TokenUsageEstimateShapes),
     c \in Optionally("modeler_metadata", ModelerMetadataShapes),
     d \in Optionally("token_usage", SnakeUsageShapes),
     e \in Optionally("model", ModelShapes),
     f \in Optionally("response", ResponseShapes),
     g \in Optionally("response_metadata", ResponseMetadataShapes)}

\* ------------------------------------------------------------------------
\* analyze_metadata: find_generation_texts, analyze_files, aggregate_by_folder
\* ------------------------------------------------------------------------
\* the texts of one entry of "generations": a list of dicts, or a dict
GenerationEntryTexts(gen) ==
  IF isinstance(gen, {"list"})
  THEN Flatten([j \in DOMAIN gen.els |->
                  IF IsDict(gen.els[j]) /\ Has(gen.els[j], "text")
                  THEN <<Or(Get(gen.els[j], "text"), PyStr(""))>>
                  ELSE <<>>])
  ELSE IF IsDict(gen) /\ Has(gen, "text")
       THEN <<Or(Get(gen, "text"), PyStr(""))>>
       ELSE <<>>

RECURSIVE TextWalk(_)
\* the nested walk(o) of find_generation_texts: every str under a key "text"
TextWalk(o) ==
  IF IsDict(o)
  THEN Flatten([j \in DOMAIN o.items |->
                  IF o.items[j][1] = "text" /\ isinstance(o.items[j][2], {"str"})
                  THEN <<o.items[j][2]>>
                  ELSE TextWalk(o.items[j][2])])
  ELSE IF isinstance(o, {"list"})
       THEN Flatten([j \in DOMAIN o.els |-> TextWalk(o.els[j])])
       ELSE <<>>

find_generation_texts(obj) ==
  LET resp == Or(Or(Get(obj, "response"), Get(obj, "responseMetadata")), obj)
      generations == Get(resp, "generations")
      listed == IF IsDict(resp) /\ isinstance(generations, {"list"})
                THEN Flatten([j \in DOMAIN generations.els |->
                                GenerationEntryTexts(generations.els[j])])
                ELSE <<>>
  IN  IF ~Truthy(obj) THEN <<>>
      ELSE IF listed # <<>> THEN listed
      ELSE TextWalk(obj)

RECURSIVE JoinParts(_)
\* str(p) of an absolute path: "/" before every part
JoinParts(parts) ==
  IF parts = <<>> THEN "" ELSE "/" \o Head(parts) \o JoinParts(Tail(parts))

\* p.parents[1].name if len(p.parents) > 1 else p.parent.name, for an
\* absolute path: the name of the directory above the file's directory, ""
\* when that is the root of the file system
FolderOf(p) ==
  IF Len(p.parts) >= 3 THEN p.parts[Len(p.parts) - 2] ELSE ""

\* Optional[int] as a JSON value
OptionalValue(o) == IF o.some THEN PyInt(o.v) ELSE PyNone

\* what one iteration of analyze_files appends to records; c is the outcome
\* of load_json: c.ok is FALSE when it returned None
MetadataRecord(p, c) ==
  IF ~c.ok
  THEN PyDict(<< <<"file", PyStr(JoinParts(p.parts))>>,
                 <<"error", PyStr("invalid_json")>> >>)
  ELSE LET token_usage == extract_token_usage(c.obj)
           gens == find_generation_texts(c.obj)
           model == extract_model_info(c.obj)
       IN  PyDict(<< <<"file", PyStr(JoinParts(p.parts))>>,
                     <<"folder", PyStr(FolderOf(p))>>,
                     <<"basename", PyStr(p.parts[Len(p.parts)])>>,
                     <<"model", model.model>>,
                     <<"temperature", model.temperature>>,
                     <<"prompt_tokens", OptionalValue(token_usage.prompt_tokens)>>,
                     <<"completion_tokens", OptionalValue(token_usage.completion_tokens)>>,
                     <<"total_tokens", OptionalValue(token_usage.total_tokens)>>,
                     <<"generation_count", PyInt(Len(gens))>> >>)

\* r.get("folder", "<unknown>")
FolderKey(r) == IF Has(r, "folder") THEN Get(r, "folder") ELSE PyStr("<unknown>")

\* r.get("model") or "<unknown>"
ModelKey(r) == Or(Get(r, "model"), PyStr("<unknown>"))

\* the distinct keys of a list of keys, in the order of their first
\* occurrence (the key order of a dict filled record by record)
FirstSeen(keys) ==
  LET firsts == SelectSeq([j \in DOMAIN keys |-> j],
                          LAMBDA j : \A i \in 1..(j - 1) : keys[i] # keys[j])
  IN  [n \in DOMAIN firsts |-> keys[firsts[n]]]

\* faulty variant: a record with no model name is not counted
ModelCountsNamed(recs) ==
  LET named == SelectSeq(recs, LAMBDA r : Truthy(Get(r, "model")))
      keys == FirstSeen([j \in DOMAIN named |-> ModelKey(named[j])])
  IN  [n \in DOMAIN keys |->
         <<keys[n], Len(SelectSeq(named, LAMBDA r : ModelKey(r) = keys[n]))>>]

\* stats["models"]: setdefault(m, 0), then += 1, for every record
ModelCounts(recs) ==
  LET keys == FirstSeen([j \in DOMAIN recs |-> ModelKey(recs[j])])
  IN  [n \in DOMAIN keys |->
         <<keys[n], Len(SelectSeq(recs, LAMBDA r : ModelKey(r) = keys[n]))>>]

RECURSIVE FieldTotal(_, _)
\* the += of r[key] over the records with r.get(key) is not None
FieldTotal(recs, key) ==
  IF recs = <<>> THEN 0
  ELSE (IF Get(Head(recs), key) # PyNone THEN Get(Head(recs), key).n ELSE 0)
       + FieldTotal(Tail(recs), key)

\* the += 1 over the same records
FieldCount(recs, key) == Len(SelectSeq(recs, LAMBDA r : Get(r, key) # PyNone))

\* (total / count) if count else None; the quotient is kept as a fraction
NoAverage == [some |-> FALSE, num |-> 0, den |-> 1]
mkavg(total, count) ==
  IF count # 0 THEN [some |-> TRUE, num |-> total, den |-> count] ELSE NoAverage

\* summary[folder] for the records of one folder
FolderStats(recs) ==
  [files_count |-> Len(recs),
   models |-> ModelCounts(recs),
   prompt_tokens_total |-> FieldTotal(recs, "prompt_tokens"),
   completion_tokens_total |-> FieldTotal(recs, "completion_tokens"),
   total_tokens_total |-> FieldTotal(recs, "total_tokens"),
   prompt_tokens_count |-> FieldCount(recs, "prompt_tokens"),
   completion_tokens_count |-> FieldCount(recs, "completion_tokens"),
   total_tokens_count |-> FieldCount(recs, "total_tokens"),
   generation_count_total |-> FieldTotal(recs, "generation_count"),
   prompt_tokens_avg |->
     mkavg(FieldTotal(recs, "prompt_tokens"), FieldCount(recs, "prompt_tokens")),
   completion_tokens_avg |->
     mkavg(FieldTotal(recs, "completion_tokens"), FieldCount(recs, "completion_tokens")),
   total_tokens_avg |->
     mkavg(FieldTotal(recs, "total_tokens"), FieldCount(recs, "total_tokens")),
   files |-> recs]

\* by_folder groups the records by FolderKey; summary has one entry per group
aggregate_by_folder(recs) ==
  LET folders == FirstSeen([j \in DOMAIN recs |-> FolderKey(recs[j])])
  IN  [n \in DOMAIN folders |->
         <<folders[n],
           FolderStats(SelectSeq(recs, LAMBDA r : FolderKey(r) = folders[n]))>>]

\* the outcomes of load_json: None, or the loaded object
LoadFailed == [ok |-> FALSE, obj |-> PyNone]
LoadedJson(obj) == [ok |-> TRUE, obj |-> obj]

\* {"tokenUsage": {"promptTokens": 10, "prompt_tokens": 11,
\*  "completionTokens": 12}, "model": "m2"}
UsageModelDoc ==
  PyDict(<< <<"tokenUsage",
              PyDict(<< <<"promptTokens", PyInt(10)>>, <<"prompt_tokens", PyInt(11)>>,
                        <<"completionTokens", PyInt(12)>> >>)>>,
            <<"model", PyStr("m2")>> >>)
\* {"tokenUsageEstimate": {"promptTokens": 20, "totalTokens": 22}}
EstimateDoc ==
  PyDict(<< <<"tokenUsageEstimate",
              PyDict(<< <<"promptTokens", PyInt(20)>>, <<"totalTokens", PyInt(22)>> >>)>> >>)
\* {"modeler_metadata": {"model": "m1", "response_metadata": {"totalTokens": true}},
\*  "response": {"generations": [[{"text": "t"}]]}}
ModelerDoc ==
  PyDict(<< <<"modeler_metadata",
              PyDict(<< <<"model", PyStr("m1")>>,
                        <<"response_metadata",
                          PyDict(<< <<"totalTokens", PyBool(TRUE)>> >>)>> >>)>>,
            <<"response",
              PyDict(<< <<"generations",
                          PyList(<<PyList(<<PyDict(<< <<"text", PyStr("t")>> >>)>>)>>)>> >>)>> >>)
\* {"tokenUsage": {"promptTokens": 0}, "model": "m2"}
ZeroUsageDoc ==
  PyDict(<< <<"tokenUsage", PyDict(<< <<"promptTokens", PyInt(0)>> >>)>>,
            <<"model", PyStr("m2")>> >>)

LoadOutcomes ==
  {LoadFailed, LoadedJson(UsageModelDoc), LoadedJson(EstimateDoc),
   LoadedJson(ModelerDoc), LoadedJson(ZeroUsageDoc)}

\* the corpus folders under the root, in the order sorted() puts them
MetaFolders == <<"<unknown>", "full", "single_agent">>

\* the k-th metadata file, in the run directory k of the folder
MetaFilePath(folder, k) ==
  [parts |-> <<"r", folder, "run" \o ToString(k), "modeler_metadata.json">>]

\* the lists find_metadata_files can return: up to MaxMetaFiles files, sorted
MetaFileLists ==
  UNION {{[k \in 1..n |-> MetaFilePath(MetaFolders[g[k]], k)] :
            g \in {h \in [1..n -> DOMAIN MetaFolders] :
                     \A i, j \in 1..n : i <= j => h[i] <= h[j]}} :
         n \in 0..MaxMetaFiles}

\* ------------------------------------------------------------------------
\* State
\* ------------------------------------------------------------------------
VARIABLES
  files,    \* the file list process_folder hands to analyze_files
  content,  \* per file, the outcome of reading and parsing it
  pc,       \* where process_folder is
  idx,      \* position of the running loop in its list
  out,      \* analyze_files: the FileSchema list built so far
  result,   \* merge_schemas: the path dict, finalized once pc leaves "merge"
  summary,  \* the record summarize_schema returned
  listing,  \* the *.json files os.walk finds in the folder
  rc,       \* what compare_schemas.main returned, -1 while it runs
  reports,  \* the folders with a <folder>_schema_report.json in the reports dir
  xrc,      \* what extract_unique_paths.main returned, -1 before it ran
  mobj,        \* analyze_metadata: the loaded metadata object
  mpc,         \* analyze_metadata: where the analysis of mobj is
  token_info,  \* analyze_metadata: what extract_token_usage returned
  model_info,  \* analyze_metadata: what extract_model_info returned
  mfiles,      \* analyze_metadata.main: the files find_metadata_files returned
  loaded,      \* analyze_metadata.main: what load_json gives for each file
  records,     \* analyze_metadata.main: the records analyze_files has built
  by_folder,   \* analyze_metadata.main: what aggregate_by_folder returned
  apc          \* analyze_metadata.main: where it is

clivars == <<listing, rc, reports, xrc>>
metavars == <<mobj, mpc, token_info, model_info>>
aggvars == <<mfiles, loaded, records, by_folder, apc>>
vars == <<files, content, pc, idx, out, result, summary, clivars, metavars, aggvars>>

\* no metadata analysis is running
MetaIdle ==
  /\ mobj = PyNone
  /\ mpc = "idle"
  /\ token_info = NoTokens
  /\ model_info = [model |-> PyNone, temperature |-> PyNone]

\* analyze_metadata.main is not running
AggIdle ==
  /\ mfiles = <<>>
  /\ loaded = <<>>
  /\ records = <<>>
  /\ by_folder = <<>>
  /\ apc = "idle"

NoSummary == [total_paths |-> -1]

InitRun ==
  /\ pc = "analyze"
  /\ idx = 1
  /\ out = <<>>
  /\ result = <<>>
  /\ summary = NoSummary
  /\ rc = -1
  /\ reports = {}
  /\ xrc = -1
  /\ MetaIdle
  /\ AggIdle

\* a corpus of up to MaxFiles small documents, some of them unparseable
InitCorpus ==
  /\ \E S \in SUBSET (1..MaxFiles) : listing = {FilePath(k) : k \in S}
  /\ files = find_json_files(listing, IgnorePatterns)
  /\ content \in [SeqToSet(files) -> CorpusContents]
  /\ InitRun

\* a single parseable document of any shape
InitWalk ==
  /\ listing = {FilePath(1)}
  /\ files = find_json_files(listing, IgnorePatterns)
  /\ content \in [SeqToSet(files) -> {Parsed(d) : d \in WalkDocs}]
  /\ InitRun

\* a corpus of up to WideFiles files with more keys than the example cap,
\* in a folder that may also hold a file the ignore patterns match
InitWide ==
  /\ \E S \in SUBSET (1..WideFiles), X \in SUBSET IgnoredFiles :
       listing = {FilePath(k) : k \in S} \cup X
  /\ files = find_json_files(listing, IgnorePatterns)
  /\ content \in [SeqToSet(files) -> WideContents]
  /\ InitRun

Init == InitCorpus \/ InitWalk \/ InitWide

\* ------------------------------------------------------------------------
\* Actions
\* ------------------------------------------------------------------------
\* analyze_files: one iteration of "for p in files"
AnalyzeStep ==
  /\ pc = "analyze"
  /\ idx <= Len(files)
  /\ out' = Append(out, AnalyzeOne(files[idx], content[files[idx]]))
  /\ idx' = idx + 1
  /\ UNCHANGED <<files, content, pc, result, summary, clivars, metavars, aggvars>>

\* analyze_files returns out; merge_schemas starts with an empty result
AnalyzeReturn ==
  /\ pc = "analyze"
  /\ idx > Len(files)
  /\ pc' = "merge"
  /\ idx' = 1
  /\ result' = <<>>
  /\ UNCHANGED <<files, content, out, summary, clivars, metavars, aggvars>>

\* faulty variant: a new record takes the file's own set of types instead of
\* a fresh set, so the later updates of the record write into the input
MergeStepAliased ==
  /\ pc = "merge"
  /\ idx <= Len(out)
  /\ result' = MergeOne(result, out[idx])
  /\ out' = [j \in DOMAIN out |->
              FileSchema(out[j].path,
                [n \in DOMAIN out[j].path_types |->
                   LET p == out[j].path_types[n][1]
                   IN  <<p, IF j <= idx /\ (\A i \in 1..(j - 1) : p \notin DictKeys(out[i].path_types))
                            THEN DictGet(result', p).types
                            ELSE out[j].path_types[n][2]>>])]
  /\ idx' = idx + 1
  /\ UNCHANGED <<files, content, pc, summary, clivars, metavars, aggvars>>

\* merge_schemas: one iteration of "for s in schemas"
MergeStep ==
  /\ pc = "merge"
  /\ idx <= Len(out)
  /\ result' = MergeOne(result, out[idx])
  /\ idx' = idx + 1
  /\ UNCHANGED <<files, content, pc, out, summary, clivars, metavars, aggvars>>

\* merge_schemas: the finalize loop and the return
FinalizeStep ==
  /\ pc = "merge"
  /\ idx > Len(out)
  /\ result' = Finalize(result, AllFiles(out))
  /\ pc' = "summarize"
  /\ UNCHANGED <<files, content, idx, out, summary, clivars, metavars, aggvars>>

\* write_reports: summarize_schema(merged) goes into the report of the
\* folder, which is written whatever the number of files
Summarize ==
  /\ pc = "summarize"
  /\ summary' = summarize_schema(result)
  /\ reports' = reports \cup {"full"}
  /\ pc' = "done"
  /\ UNCHANGED <<files, content, idx, out, result, listing, rc, xrc, metavars, aggvars>>

\* compare_schemas.main: the loop over the folders is over, return 0
MainReturn ==
  /\ pc = "done"
  /\ pc' = "exit"
  /\ rc' = 0
  /\ UNCHANGED <<files, content, idx, out, result, summary, listing, reports,
                 xrc, metavars, aggvars>>

\* extract_unique_paths.main, run once: on the reports dir of a comparison
\* that has returned, or on a reports dir no comparison was run for (and
\* none is run afterwards). 1 when the dir has no schema report, else 0
ExtractMain ==
  /\ (pc = "analyze" /\ idx = 1) \/ pc = "exit"
  /\ xrc = -1
  /\ xrc' = IF reports = {} THEN 1 ELSE 0
  /\ pc' = IF pc = "analyze" THEN "skipped" ELSE pc
  /\ UNCHANGED <<files, content, idx, out, result, summary, listing, rc,
                 reports, metavars, aggvars>>

Next ==
  \/ AnalyzeStep \/ AnalyzeReturn \/ MergeStep \/ FinalizeStep \/ Summarize
  \/ MainReturn \/ ExtractMain

Spec == Init /\ [][Next]_vars

\* analyze_metadata.analyze_files on one loaded object; the schema
\* comparison is not running
InitMeta ==
  /\ files = <<>>
  /\ content = <<>>
  /\ listing = {}
  /\ pc = "idle"
  /\ idx = 1
  /\ out = <<>>
  /\ result = <<>>
  /\ summary = NoSummary
  /\ rc = -1
  /\ reports = {}
  /\ xrc = -1
  /\ mobj \in MetaObjects
  /\ mpc = "tokens"
  /\ token_info = NoTokens
  /\ model_info = [model |-> PyNone, temperature |-> PyNone]
  /\ AggIdle

\* token_info = extract_token_usage(obj)
MetaTokens ==
  /\ mpc = "tokens"
  /\ token_info' = extract_token_usage(mobj)
  /\ mpc' = "model"
  /\ UNCHANGED <<files, content, pc, idx, out, result, summary, clivars,
                 mobj, model_info, aggvars>>

\* model_info = extract_model_info(obj), then the record is built
MetaModel ==
  /\ mpc = "model"
  /\ model_info' = extract_model_info(mobj)
  /\ mpc' = "record"
  /\ UNCHANGED <<files, content, pc, idx, out, result, summary, clivars,
                 mobj, token_info, aggvars>>

NextMeta == MetaTokens \/ MetaModel

MetaSpec == InitMeta /\ [][NextMeta]_vars

\* analyze_metadata.main over up to MaxMetaFiles metadata files; nothing
\* else is running
InitAgg ==
  /\ files = <<>>
  /\ content = <<>>
  /\ listing = {}
  /\ pc = "idle"
  /\ idx = 1
  /\ out = <<>>
  /\ result = <<>>
  /\ summary = NoSummary
  /\ rc = -1
  /\ reports = {}
  /\ xrc = -1
  /\ MetaIdle
  /\ mfiles \in MetaFileLists
  /\ loaded \in [SeqToSet(mfiles) -> LoadOutcomes]
  /\ records = <<>>
  /\ by_folder = <<>>
  /\ apc = "analyze"

\* analyze_files: one iteration of "for p in files"
AnalyzeMetadataStep ==
  /\ apc = "analyze"
  /\ Len(records) < Len(mfiles)
  /\ records' = Append(records,
                       LET p == mfiles[Len(records) + 1]
                       IN  MetadataRecord(p, loaded[p]))
  /\ UNCHANGED <<files, content, pc, idx, out, result, summary, clivars,
                 metavars, mfiles, loaded, by_folder, apc>>

\* by_folder = aggregate_by_folder(records)
AggregateStep ==
  /\ apc = "analyze"
  /\ Len(records) = Len(mfiles)
  /\ by_folder' = aggregate_by_folder(records)
  /\ apc' = "write"
  /\ UNCHANGED <<files, content, pc, idx, out, result, summary, clivars,
                 metavars, mfiles, loaded, records>>

NextAgg == AnalyzeMetadataStep \/ AggregateStep

AggSpec == InitAgg /\ [][NextAgg]_vars

TypeOK ==
  /\ mpc \in {"idle", "tokens", "model", "record"}
  /\ apc \in {"idle", "analyze", "write"}
  /\ Len(records) <= Len(mfiles)
  /\ pc \in {"analyze", "merge", "summarize", "done", "exit", "skipped", "idle"}
  /\ rc \in {-1, 0}
  /\ xrc \in {-1, 0, 1}
  /\ idx \in 1..(Len(files) + 1)
  /\ Len(out) <= Len(files)

\* ------------------------------------------------------------------------
\* Vocabulary of the properties
\* ------------------------------------------------------------------------
Analyzed == pc \in {"merge", "summarize", "done", "exit"}
Merged == pc \in {"summarize", "done", "exit"}

ParsedFiles == {f \in SeqToSet(files) : content[f].ok}
BadFiles == {f \in SeqToSet(files) : ~content[f].ok}

\* the tag each kind of JSON value is documented to get
DocumentedTag(v) ==
  CASE v.cls = "NoneType" -> "null"
    [] v.cls = "bool"     -> "boolean"
    [] v.cls = "int"      -> "number"
    [] v.cls = "float"    -> "number"
    [] v.cls = "str"      -> "string"
    [] v.cls = "list"     -> "array"
    [] v.cls = "dict"     -> "object"

RECURSIVE SubValues(_)
\* a value and every value nested in it
SubValues(v) ==
  {v} \cup UNION {SubValues(v.els[j]) : j \in DOMAIN v.els}
      \cup UNION {SubValues(v.items[j][2]) : j \in DOMAIN v.items}

\* schemas reordered by the permutation f of their positions
Permuted(schemas, f) == [j \in DOMAIN schemas |-> schemas[f[j]]]

\* two merged schemas with the same paths and the same record per path
SameRecords(m1, m2) ==
  /\ DictKeys(m1) = DictKeys(m2)
  /\ \A p \in DictKeys(m1) : DictGet(m1, p) = DictGet(m2, p)

\* the (path, tag) pairs a file contributes
FilePairs(f) ==
  IF content[f].ok THEN SeqToSet(walk_json(content[f].obj, "$"))
  ELSE {<<"$", "invalid_json">>}

\* ------------------------------------------------------------------------
\* Properties
\* ------------------------------------------------------------------------
\* C1: merging the per-file results in any order of the files gives the
\* merged schema the run produced: the same set of paths and, per path, the
\* same types, files and missing_in_files.
C1_OrderIndependent ==
  Merged =>
    \A f \in Permutations(DOMAIN out) :
      SameRecords(merge_schemas(Permuted(out, f)), result)

\* a finished run over two or more files that disagree on the type of a path
C1_Witness ==
  /\ pc = "done"
  /\ Len(out) >= 2
  /\ \E j \in DOMAIN result :
       Len(result[j][2].types) > 1 /\ Len(result[j][2].files) > 1

\* C2: with parseable and unparseable files mixed, no file stops the run:
\* analyze_files returns one FileSchema per file and the merge goes through;
\* the merged schema has every path walked from the
\* parseable files, each path but "$" with the types and files the parseable
\* files alone would give, and the record at "$" is tagged invalid_json and
\* lists every unparseable file.
C2_TotalOverInvalid ==
  /\ Analyzed => /\ Len(out) = Len(files)
                 /\ \A j \in DOMAIN out : out[j].path = files[j]
  /\ Merged =>
       LET good == SelectSeq(out, LAMBDA s : content[s.path].ok)
           ref  == merge_schemas(good)
       IN  /\ \A f \in ParsedFiles : \A e \in FilePairs(f) :
                e[1] \in DictKeys(result)
           /\ \A p \in DictKeys(ref) \ {"$"} :
                /\ p \in DictKeys(result)
                /\ DictGet(result, p).types = DictGet(ref, p).types
                /\ DictGet(result, p).files = DictGet(ref, p).files
           /\ BadFiles # {} =>
                /\ "$" \in DictKeys(result)
                /\ "invalid_json" \in SeqToSet(DictGet(result, "$").types)
                /\ \A f \in BadFiles :
                     PathStr(f) \in SeqToSet(DictGet(result, "$").files)

\* a finished run over a corpus with an unparseable file and a parseable
\* object
C2_Witness ==
  /\ pc = "done"
  /\ BadFiles # {}
  /\ \E f \in ParsedFiles : content[f].obj.cls = "dict"
  /\ Len(result) > 1

\* C3: every JSON value gets the one tag documented for its kind, and a
\* boolean is never tagged number.
C3_TypeTags ==
  \A f \in ParsedFiles : \A v \in SubValues(content[f].obj) :
    /\ _json_type(v) = DocumentedTag(v)
    /\ v.cls = "bool" => _json_type(v) # "number"

\* a document that is the boolean true has been analyzed and tagged boolean
C3_Witness ==
  /\ Analyzed
  /\ \E j \in DOMAIN out :
       /\ content[out[j].path] = Parsed(PyBool(TRUE))
       /\ out[j].path_types = << <<"$", {"boolean"}>> >>

RECURSIVE DifferOnlyBeyondFive(_, _)
\* two documents that are equal except for array elements at index 5 or later
DifferOnlyBeyondFive(a, b) ==
  /\ a.cls = b.cls
  /\ IF a.cls = "list"
     THEN \A j \in 1..5 :
            /\ j <= Len(a.els) <=> j <= Len(b.els)
            /\ j <= Len(a.els) => DifferOnlyBeyondFive(a.els[j], b.els[j])
     ELSE IF a.cls = "dict"
     THEN /\ Len(a.items) = Len(b.items)
          /\ \A j \in DOMAIN a.items :
               /\ a.items[j][1] = b.items[j][1]
               /\ DifferOnlyBeyondFive(a.items[j][2], b.items[j][2])
     ELSE a = b

\* C4: a document that differs from an analyzed one only in array elements
\* at index 5 or later, at any depth, has the same walk output, hence the
\* same per-file schema.
C4_SamplingBound ==
  Analyzed =>
    \A j \in DOMAIN out : content[out[j].path].ok =>
      \A d \in WalkDocs :
        DifferOnlyBeyondFive(content[out[j].path].obj, d) =>
          /\ walk_json(d, "$") = walk_json(content[out[j].path].obj, "$")
          /\ out[j].path_types = CollectPairs(walk_json(d, "$"))

\* {"items": [1, 1, 1, 1, 1, "x"]} has been merged and its elements are
\* recorded as numbers only
C4_Witness ==
  /\ pc = "done"
  /\ \E f \in ParsedFiles :
       content[f].obj =
         PyDict(<< <<"items", PyList(<<PyInt(1), PyInt(1), PyInt(1), PyInt(1),
                                      PyInt(1), PyStr("x")>>)>> >>)
  /\ \E j \in DOMAIN result :
       result[j][2].types = <<"number">> /\ Len(result[j][2].files) = 1
         /\ j = Len(result) /\ j = 3

\* the path of key k below path p: bare below the root when `bare`
JoinKey(p, k, bare) == IF bare /\ p = "$" THEN k ELSE p \o "." \o k

RECURSIVE DocumentedPairs(_, _, _)
\* the (path, tag) pairs documented for value v at path p
DocumentedPairs(v, p, bare) ==
  {<<p, DocumentedTag(v)>>}
  \cup UNION {DocumentedPairs(v.items[j][2], JoinKey(p, v.items[j][1], bare), bare) :
                j \in DOMAIN v.items}
  \cup UNION {DocumentedPairs(v.els[j], p \o "[]", bare) :
                j \in 1..Min(5, Len(v.els))}

\* a per-file dict as a set of (path, tag) pairs
PairSet(path_types) ==
  UNION {{<<path_types[j][1], t>> : t \in path_types[j][2]} : j \in DOMAIN path_types}

\* the corpus is File1 {"name": "a", "tags": ["x","y"]} and File2 {"name": 1}
ScenarioCorpus ==
  /\ Len(files) = 2
  /\ content[files[1]] = Parsed(NameTagsDoc)
  /\ content[files[2]] = Parsed(NameNumberDoc)

\* C5 as stated: walked from "$", the root is recorded at "$", a top-level
\* key k at the bare path k, a nested key at parent.k and array elements at
\* p[]; the scenario corpus gives records at name, tags and tags[].
C5_BareTopLevelPaths ==
  /\ Analyzed =>
       \A j \in DOMAIN out : content[out[j].path].ok =>
         PairSet(out[j].path_types)
           = DocumentedPairs(content[out[j].path].obj, "$", TRUE)
  /\ Merged /\ ScenarioCorpus =>
       DictKeys(result) = {"$", "name", "tags", "tags[]"}

\* C5 amended: walked from "$", the root is recorded at "$", a top-level key
\* k at "$.k", a nested key at "$.parent.k" and the elements of an array at
\* path p at p[]; the scenario corpus gives records at $.name, $.tags and
\* $.tags[].
C5_RootPrefixedPaths ==
  /\ Analyzed =>
       \A j \in DOMAIN out : content[out[j].path].ok =>
         PairSet(out[j].path_types)
           = DocumentedPairs(content[out[j].path].obj, "$", FALSE)
  /\ Merged /\ ScenarioCorpus =>
       DictKeys(result) = {"$", "$.name", "$.tags", "$.tags[]"}

\* the scenario corpus has been merged
C5_Witness ==
  /\ pc = "done"
  /\ ScenarioCorpus
  /\ Len(result) = 4
  /\ result[2][1] = "$.name"

\* the files whose pairs include path p
FilesWith(p) == {f \in SeqToSet(files) : \E e \in FilePairs(f) : e[1] = p}

\* C6: the merged schema has a record for exactly the paths some file
\* exhibits; per path, types is the union of the tags the files give it and
\* files is exactly the set of the files that exhibit it.
C6_MergeRule ==
  Merged =>
    /\ DictKeys(result) = UNION {{e[1] : e \in FilePairs(f)} : f \in SeqToSet(files)}
    /\ Len(result) = Cardinality(DictKeys(result))
    /\ \A p \in DictKeys(result) :
         /\ SeqToSet(DictGet(result, p).types)
              = UNION {{e[2] : e \in {x \in FilePairs(f) : x[1] = p}} :
                         f \in SeqToSet(files)}
         /\ SeqToSet(DictGet(result, p).files) = {PathStr(f) : f \in FilesWith(p)}

\* a merged corpus of three files with a path in exactly two of them
C6_Witness ==
  /\ pc = "done"
  /\ Len(files) = 3
  /\ \E j \in DOMAIN result :
       Len(result[j][2].files) = 2 /\ Len(result[j][2].types) = 2

\* C7: per record, missing_in_files is the corpus files minus the record's
\* files: the two are disjoint and together are all files of the corpus,
\* the unparseable ones included.
C7_MissingComplement ==
  Merged =>
    \A j \in DOMAIN result :
      LET rec    == result[j][2]
          corpus == {PathStr(f) : f \in SeqToSet(files)}
      IN  /\ SeqToSet(rec.missing_in_files) = corpus \ SeqToSet(rec.files)
          /\ SeqToSet(rec.missing_in_files) \cap SeqToSet(rec.files) = {}
          /\ SeqToSet(rec.missing_in_files) \cup SeqToSet(rec.files) = corpus

\* a merged corpus with an unparseable file and a path that is in some
\* files and missing in others
C7_Witness ==
  /\ pc = "done"
  /\ BadFiles # {}
  /\ \E j \in DOMAIN result :
       /\ result[j][2].missing_in_files # <<>>
       /\ Len(result[j][2].files) >= 2
       /\ \E f \in BadFiles : PathStr(f) \in SeqToSet(result[j][2].missing_in_files)

\* the paths of the merged schema whose record satisfies Cond
PathsWith(Cond(_)) == {result[j][1] : j \in {i \in DOMAIN result : Cond(result[i][2])}}

\* C8: the summary reports the number of records, the number of paths with
\* more than one type, with a non-empty missing_in_files and with exactly
\* one file (a path in two files is not unique); each example list has at
\* most 20 paths, all of them satisfying the list's predicate.
C8_Summary ==
  pc = "done" =>
    LET conflict == PathsWith(LAMBDA r : Len(r.types) > 1)
        missing  == PathsWith(LAMBDA r : Len(r.missing_in_files) > 0)
        unique   == PathsWith(LAMBDA r : Len(r.files) = 1)
    IN  /\ summary.total_paths = Len(result)
        /\ summary.paths_with_type_conflict_count = Cardinality(conflict)
        /\ summary.paths_missing_count = Cardinality(missing)
        /\ summary.unique_paths_count = Cardinality(unique)
        /\ Len(summary.paths_with_type_conflict) <= 20
        /\ Len(summary.paths_missing_examples) <= 20
        /\ Len(summary.unique_paths_examples) <= 20
        /\ SeqToSet(summary.paths_with_type_conflict) \subseteq conflict
        /\ SeqToSet(summary.paths_missing_examples) \subseteq missing
        /\ SeqToSet(summary.unique_paths_examples) \subseteq unique
        /\ \A j \in DOMAIN result : Len(result[j][2].files) = 2 =>
             result[j][1] \notin SeqToSet(summary.unique_paths_examples)

\* a summary of more than 20 unique paths, next to a path that two files
\* share
C8_Witness ==
  /\ pc = "done"
  /\ summary.unique_paths_count > 20
  /\ Len(summary.unique_paths_examples) = 20
  /\ summary.paths_missing_count > 20
  /\ \E j \in DOMAIN result : Len(result[j][2].files) = 2

\* the entries of a walk recorded at path p
EntriesAt(w, p) == {j \in DOMAIN w : w[j][1] = p}

\* {"items": []}
EmptyItemsDoc == PyDict(<< <<"items", PyList(<<>>)>> >>)

\* C9: an empty array contributes its own entry, tagged array, and nothing
\* below it; walking a document whose key items holds an empty array gives
\* exactly one entry for items and none for items[].
C9_EmptyArray ==
  /\ \A f \in ParsedFiles : \A v \in SubValues(content[f].obj) :
       v.cls = "list" /\ v.els = <<>> =>
         \A base \in {"", "$", "items", "$.items"} :
           walk_json(v, base) = << <<IF base = "" THEN "$" ELSE base, "array">> >>
  /\ \A f \in ParsedFiles :
       LET obj == content[f].obj
           w   == walk_json(obj, "")
       IN  (obj.cls = "dict" /\ "items" \in DictKeys(obj.items)
              /\ DictGet(obj.items, "items") = PyList(<<>>)) =>
             /\ Cardinality(EntriesAt(w, "items")) = 1
             /\ \A j \in EntriesAt(w, "items") : w[j][2] = "array"
             /\ EntriesAt(w, "items[]") = {}
  /\ Analyzed =>
       \A j \in DOMAIN out : content[out[j].path] = Parsed(EmptyItemsDoc) =>
         out[j].path_types = << <<"$", {"object"}>>, <<"$.items", {"array"}>> >>

\* {"items": []} has been merged: the root and the array, nothing else
C9_Witness ==
  /\ pc = "done"
  /\ Len(files) = 1
  /\ content[files[1]] = Parsed(EmptyItemsDoc)
  /\ Len(result) = 2
  /\ result[2][2].types = <<"array">>

\* the values walk_json recurses into, in order
WalkedChildren(v) ==
  IF v.cls = "dict" THEN [j \in DOMAIN v.items |-> v.items[j][2]]
  ELSE IF v.cls = "list" THEN SubSeq(v.els, 1, Min(5, Len(v.els)))
  ELSE <<>>

RECURSIVE WalkedSize(_)
RECURSIVE SizeUpTo(_, _)
\* the number of walked nodes in the first n of the values cs
SizeUpTo(cs, n) == IF n = 0 THEN 0 ELSE SizeUpTo(cs, n - 1) + WalkedSize(cs[n])

\* the number of walked nodes of v: v and the walked nodes of its children
WalkedSize(v) == 1 + SizeUpTo(WalkedChildren(v), Len(WalkedChildren(v)))

RECURSIVE IsPreorder(_, _)
\* w lists the walked nodes of v depth-first, each node before its
\* descendants, one entry per node carrying the node's own tag
IsPreorder(w, v) ==
  /\ Len(w) = WalkedSize(v)
  /\ w[1][2] = DocumentedTag(v)
  /\ \A j \in DOMAIN WalkedChildren(v) :
       IsPreorder(SubSeq(w, 2 + SizeUpTo(WalkedChildren(v), j - 1),
                            1 + SizeUpTo(WalkedChildren(v), j)),
                  WalkedChildren(v)[j])

\* C10: the walk of a document has exactly one entry per walked node (the
\* root, every mapping value, each of the first five elements of every
\* array), tagged with the node's own type, depth-first with every node
\* before its descendants.
C10_PreorderWalk ==
  /\ \A f \in ParsedFiles : IsPreorder(walk_json(content[f].obj, "$"), content[f].obj)
  /\ Analyzed =>
       \A j \in DOMAIN out : content[out[j].path].ok =>
         out[j].path_types[1] = <<"$", {DocumentedTag(content[out[j].path].obj)}>>

\* a document with objects and an empty array inside an array has been
\* analyzed
C10_Witness ==
  /\ Analyzed
  /\ \E j \in DOMAIN out :
       /\ content[out[j].path] = Parsed(ObjectItemsDoc)
       /\ Len(walk_json(content[out[j].path].obj, "$")) = 8
       /\ Len(out[j].path_types) = 5

\* C11: every record of a merged schema has a non-empty files list and a
\* non-empty types list.
C11_NonEmptyRecord ==
  Merged =>
    \A j \in DOMAIN result :
      Len(result[j][2].files) >= 1 /\ Len(result[j][2].types) >= 1

\* a merged corpus of parseable and unparseable files with several records
C11_Witness ==
  /\ pc = "done"
  /\ BadFiles # {}
  /\ ParsedFiles # {}
  /\ Len(result) >= 3

\* the list is strictly ascending in the order of Python strings
StrictlyAscending(lst) ==
  \A i, j \in DOMAIN lst : i < j => StrLess(lst[i], lst[j])

\* C12: after finalization the lists types, files and missing_in_files of
\* every record are sorted ascending and have no duplicate element.
C12_SortedLists ==
  Merged =>
    \A j \in DOMAIN result :
      /\ StrictlyAscending(result[j][2].types)
      /\ StrictlyAscending(result[j][2].files)
      /\ StrictlyAscending(result[j][2].missing_in_files)
      /\ Cardinality(SeqToSet(result[j][2].types)) = Len(result[j][2].types)
      /\ Cardinality(SeqToSet(result[j][2].files)) = Len(result[j][2].files)
      /\ Cardinality(SeqToSet(result[j][2].missing_in_files))
           = Len(result[j][2].missing_in_files)

\* a merged schema with a record of two types and two files and a record
\* missing in two files
C12_Witness ==
  /\ pc = "done"
  /\ \E j \in DOMAIN result :
       Len(result[j][2].types) >= 2 /\ Len(result[j][2].files) >= 2
  /\ \E j \in DOMAIN result : Len(result[j][2].missing_in_files) >= 2

\* C13: the walker never produces invalid_json; a merged record tagged
\* invalid_json is the one at "$"; an unparseable file contributes that one
\* record and no other path.
C13_InvalidOnlyAtRoot ==
  /\ \A f \in ParsedFiles :
       \A e \in SeqToSet(walk_json(content[f].obj, "$")) : e[2] # "invalid_json"
  /\ Analyzed =>
       \A j \in DOMAIN out :
         IF content[out[j].path].ok
         THEN \A i \in DOMAIN out[j].path_types :
                "invalid_json" \notin out[j].path_types[i][2]
         ELSE out[j].path_types = << <<"$", {"invalid_json"}>> >>
  /\ Merged =>
       \A j \in DOMAIN result :
         "invalid_json" \in SeqToSet(result[j][2].types) => result[j][1] = "$"

\* a merged corpus whose root record mixes invalid_json with the type of a
\* parseable document
C13_Witness ==
  /\ pc = "done"
  /\ BadFiles # {}
  /\ Len(result) >= 2
  /\ result[1][1] = "$"
  /\ result[1][2].types = <<"invalid_json", "object">>

\* C14: for a non-empty corpus in which every file fails to parse, the
\* merged schema is the single record at "$" with types [invalid_json], all
\* corpus files as files and an empty missing_in_files.
C14_AllInvalid ==
  (Merged /\ files # <<>> /\ ParsedFiles = {}) =>
    /\ Len(result) = 1
    /\ result[1][1] = "$"
    /\ result[1][2].types = <<"invalid_json">>
    /\ result[1][2].files = [j \in DOMAIN files |-> PathStr(files[j])]
    /\ result[1][2].missing_in_files = <<>>

\* the run over two or more files, all unparseable, has finished
C14_Witness ==
  /\ pc = "done"
  /\ Len(files) >= 2
  /\ ParsedFiles = {}
  /\ summary.total_paths = 1

\* C15 as stated: when no input files are found, compare_schemas.main (a
\* folder with no JSON files, or only ignored ones) and
\* extract_unique_paths.main (no schema report) both return a non-zero code,
\* and the core functions raise nothing (the run gets to its end with an
\* empty merged schema).
C15_NoInputNonZeroExit ==
  /\ (rc # -1 /\ files = <<>>) => rc # 0
  /\ (xrc # -1 /\ reports = {}) => xrc # 0
  /\ (Merged /\ files = <<>>) => result = <<>>

\* C16 as stated: the summary record, counts and example lists, is the same
\* for every processing order of the files of the corpus.
C16_SummaryOrderIndependent ==
  pc \in {"done", "exit"} =>
    \A f \in Permutations(DOMAIN out) :
      summarize_schema(merge_schemas(Permuted(out, f))) = summary

\* g numbers the groups of a split in the order of their first members (the
\* other numberings name the same splits)
IsSplit(g) ==
  \A j \in DOMAIN g : \E i \in 0..(j - 1) : g[j] <= (IF i = 0 THEN 0 ELSE g[i]) + 1

\* the schemas of the group i under the grouping g of the positions
GroupOf(schemas, g, i) ==
  SelectSeq(schemas, LAMBDA s : \E j \in DOMAIN schemas : schemas[j] = s /\ g[j] = i)

\* the merged schemas of the groups of g, one per group
GroupMerges(schemas, g) ==
  {merge_schemas(GroupOf(schemas, g, i)) : i \in DOMAIN schemas}

\* the union over the groups' records at path p of the field fld
UnitedField(merges, p, fld) ==
  UNION {SeqToSet(DictGet(m, p)[fld]) : m \in {n \in merges : p \in DictKeys(n)}}

\* C17: for every split of the per-file results into disjoint groups,
\* merging each group on its own and uniting the groups' types and files per
\* path gives the paths, types and files of the merge of the whole corpus.
C17_GroupedFold ==
  pc = "summarize" =>
    \A g \in {h \in [DOMAIN out -> DOMAIN out] : IsSplit(h)} :
      LET merges == GroupMerges(out, g)
      IN  /\ UNION {DictKeys(m) : m \in merges} = DictKeys(result)
          /\ \A p \in DictKeys(result) :
               /\ UnitedField(merges, p, "types") = SeqToSet(DictGet(result, p).types)
               /\ UnitedField(merges, p, "files") = SeqToSet(DictGet(result, p).files)

\* merge_schemas has returned for three files with a type conflict and a
\* path that some file lacks, so that the groups disagree on types and files
C17_Witness ==
  /\ pc = "summarize"
  /\ Len(out) = 3
  /\ \E p \in DictKeys(result) : Len(DictGet(result, p).types) > 1
  /\ \E p \in DictKeys(result) : DictGet(result, p).missing_in_files # <<>>

\* C18: merge_schemas leaves the list of FileSchema and every per-file
\* path-to-types set as they were, summarize_schema leaves the merged schema
\* as it was, and a second summarize_schema of that merged schema equals the
\* first.
C18_InputsUnchanged ==
  [][/\ pc = "merge" => out' = out
     /\ pc = "summarize" => result' = result
     /\ (pc = "summarize" /\ pc' = "done") => summarize_schema(result') = summary']_vars

\* both functions have run over a corpus with a type conflict: merge_schemas
\* has updated a record that an earlier file created
C18_Witness ==
  /\ pc = "done"
  /\ Len(out) >= 2
  /\ summary.paths_with_type_conflict_count > 0

\* the keys of the objects of the parsed documents of the corpus
DocKeys ==
  UNION {DictKeys(v.items) : v \in UNION {SubValues(content[f].obj) : f \in ParsedFiles}}

\* the keys that contain "." or "[]"
SeparatorKeys == {"a.b", "c[]"}

\* the names a key puts between the separators of a path
Segments(k) ==
  CASE k = "a.b" -> {"a", "b"}
    [] k = "c[]" -> {"c"}
    [] OTHER     -> {k}

\* q is the path that p names as its parent: p is q.key or q[]
IsKeyChild(p, q) == \E k \in DocKeys : \E n \in Segments(k) : p = q \o "." \o n
IsElementChild(p, q) == p = q \o "[]"

\* C20: when no key of the documents contains "." or "[]", every path other
\* than the root has its parent path in the merged schema, the files of the
\* path are among the files of the parent, and the types of the parent
\* include object for a path parent.key and array for a path parent[].
C20_ParentContainsChild ==
  (Merged /\ DocKeys \cap SeparatorKeys = {}) =>
    \A p \in DictKeys(result) \ {"$"} :
      /\ \E q \in DictKeys(result) : IsKeyChild(p, q) \/ IsElementChild(p, q)
      /\ \A q \in DictKeys(result) :
           /\ (IsKeyChild(p, q) \/ IsElementChild(p, q)) =>
                SeqToSet(DictGet(result, p).files) \subseteq SeqToSet(DictGet(result, q).files)
           /\ IsKeyChild(p, q) => "object" \in SeqToSet(DictGet(result, q).types)
           /\ IsElementChild(p, q) => "array" \in SeqToSet(DictGet(result, q).types)

\* a finished run over files with plain keys where a nested key and the
\* elements of an array are recorded and some path is in fewer files than
\* its parent
C20_Witness ==
  /\ pc = "done"
  /\ DocKeys \cap SeparatorKeys = {}
  /\ {"$.x.y", "$.tags[]"} \subseteq DictKeys(result)
  /\ Len(DictGet(result, "$.x.y").files) < Len(DictGet(result, "$").files)

\* the value a shape supplies: what is at the keys of path, then key, when
\* every step is a dict, the value is not None and converts to int
UsageAt(obj, path, key) ==
  LET d1 == IF Len(path) >= 1 THEN Get(obj, path[1]) ELSE obj
      d2 == IF Len(path) >= 2 /\ IsDict(d1) THEN Get(d1, path[2]) ELSE d1
      d3 == IF Len(path) >= 3 /\ IsDict(d2) THEN Get(d2, path[3]) ELSE d2
  IN  IF IsDict(d1) /\ IsDict(d2) /\ IsDict(d3) /\ Get(d3, key) # PyNone
      THEN IntOf(Get(d3, key))
      ELSE None

\* the token-usage shapes in the order extract_token_usage tries them
UsageShapes(obj, dst) ==
  << UsageAt(obj, <<"tokenUsage">>, CamelMapping[dst]),
     UsageAt(obj, <<"tokenUsageEstimate">>, CamelMapping[dst]),
     UsageAt(obj, <<"modeler_metadata", "response_metadata", "token_usage">>,
             SnakeMapping[dst]),
     UsageAt(obj, <<"modeler_metadata", "response_metadata">>, CamelMapping[dst]),
     UsageAt(obj, <<"tokenUsage">>, SnakeMapping[dst]),
     UsageAt(obj, <<"tokenUsageEstimate">>, SnakeMapping[dst]),
     UsageAt(obj, <<"token_usage">>, SnakeMapping[dst]),
     UsageAt(obj, <<"token_usage">>, CamelMapping[dst]) >>

\* the model-name shapes in the order extract_model_info tries them
ModelShapesOf(obj) ==
  LET mm == Get(obj, "modeler_metadata")
      resp == Get(obj, "response")
      rmeta == Get(obj, "response_metadata")
  IN  << IF IsDict(mm) /\ Truthy(Get(mm, "model")) THEN Get(mm, "model") ELSE PyNone,
         IF isinstance(Get(obj, "model"), {"str"}) THEN Get(obj, "model") ELSE PyNone,
         IF IsDict(resp) /\ IsDict(Get(resp, "generationInfo"))
         THEN Get(Get(resp, "generationInfo"), "model_name") ELSE PyNone,
         IF IsDict(rmeta) /\ Truthy(Get(rmeta, "model_name"))
         THEN Get(rmeta, "model_name") ELSE PyNone >>

\* the first, and the last, element of shapes that is not none
FirstMatch(shapes, none) ==
  IF \A j \in DOMAIN shapes : shapes[j] = none THEN none
  ELSE shapes[CHOOSE j \in DOMAIN shapes :
                /\ shapes[j] # none
                /\ \A i \in 1..(j - 1) : shapes[i] = none]

\* C19 as stated: each token field and the model name are the value of the
\* first shape, in the order the shapes are tried, that supplies one; a later
\* shape of the same object never replaces it.
C19_FirstMatchWins ==
  mpc = "record" =>
    /\ \A dst \in DOMAIN NoTokens :
         token_info[dst] = FirstMatch(UsageShapes(mobj, dst), None)
    /\ model_info.model = FirstMatch(ModelShapesOf(mobj), PyNone)

RECURSIVE SumFn(_, _)
\* the sum of f over the set S
SumFn(f, S) ==
  IF S = {} THEN 0
  ELSE LET x == CHOOSE y \in S : TRUE
       IN  f[x] + SumFn(f, S \ {x})

\* the positions in records of the records of the group named folder
GroupMembers(folder) ==
  {j \in DOMAIN records :
     \/ Has(records[j], "folder") /\ Get(records[j], "folder") = folder
     \/ ~Has(records[j], "folder") /\ folder = PyStr("<unknown>")}

TokenFields == {"prompt_tokens", "completion_tokens", "total_tokens"}

\* the total, the count and the average the summary gives for a token field
StatTotal(st, fld) ==
  CASE fld = "prompt_tokens" -> st.prompt_tokens_total
    [] fld = "completion_tokens" -> st.completion_tokens_total
    [] fld = "total_tokens" -> st.total_tokens_total
StatCount(st, fld) ==
  CASE fld = "prompt_tokens" -> st.prompt_tokens_count
    [] fld = "completion_tokens" -> st.completion_tokens_count
    [] fld = "total_tokens" -> st.total_tokens_count
StatAvg(st, fld) ==
  CASE fld = "prompt_tokens" -> st.prompt_tokens_avg
    [] fld = "completion_tokens" -> st.completion_tokens_avg
    [] fld = "total_tokens" -> st.total_tokens_avg

====
